---- MODULE Spec2Model ----
(***************************************************************************)
(* The calculator web application: the FastAPI handlers of src/app.py      *)
(* (index, calculate) over the arithmetic module calculator.py (add,       *)
(* subtract, multiply, divide).                                            *)
(*                                                                         *)
(* Python values are records [t, n, d, s]: t is the Python type, n/d the   *)
(* value of a float as a fraction in lowest terms with d >= 0 (d = 0       *)
(* encodes the non-finite floats: 1/0 = inf, -1/0 = -inf, 0/0 = nan) and s *)
(* the value of a str as a sequence of words.  Floats are modelled up to   *)
(* float equality (-0.0 == 0.0) and without rounding.                      *)
(***************************************************************************)
EXTENDS Integers, Sequences, FiniteSets, TLC

(* ------------------------------ bounds --------------------------------- *)

\* finite operands submitted in the form fields a and b: -MaxOperand..MaxOperand
MaxOperand == 1

\* requests handled at the same time under SpecConc
NumWorkers == 2

Workers == 1..NumWorkers

(* --------------------------- Python values ----------------------------- *)

PyNone == [t |-> "None", n |-> 0, d |-> 1, s |-> <<>>]

PyFloat(n, d) == [t |-> "float", n |-> n, d |-> d, s |-> <<>>]

PyStr(words) == [t |-> "str", n |-> 0, d |-> 1, s |-> words]

Inf == PyFloat(1, 0)

NegInf == PyFloat(-1, 0)

NaN == PyFloat(0, 0)

Abs(i) == IF i < 0 THEN -i ELSE i

Sign(i) == IF i < 0 THEN -1 ELSE IF i = 0 THEN 0 ELSE 1

RECURSIVE Gcd(_, _)
Gcd(i, j) == IF j = 0 THEN i ELSE Gcd(j, i % j)

\* the float n/d with d # 0, in lowest terms with a positive denominator
Norm(n, d) ==
    LET g == Gcd(Abs(n), Abs(d))
    IN  PyFloat(Sign(d) * (n \div g), Abs(d) \div g)

IsNaN(x) == x.d = 0 /\ x.n = 0

IsInf(x) == x.d = 0 /\ x.n # 0

IsFinite(x) == x.d # 0

\* Python's x == 0 on a float
IsZero(x) == x.d # 0 /\ x.n = 0

(* ------------------------ float arithmetic ----------------------------- *)

\* x + y on floats
FAdd(x, y) ==
    IF IsNaN(x) \/ IsNaN(y) THEN NaN
    ELSE IF IsInf(x) /\ IsInf(y) THEN (IF x.n = y.n THEN x ELSE NaN)
    ELSE IF IsInf(x) THEN x
    ELSE IF IsInf(y) THEN y
    ELSE Norm(x.n * y.d + y.n * x.d, x.d * y.d)

\* x - y on floats
FSub(x, y) == FAdd(x, PyFloat(-y.n, y.d))

\* x * y on floats
FMul(x, y) ==
    IF IsNaN(x) \/ IsNaN(y) THEN NaN
    ELSE IF IsInf(x) \/ IsInf(y)
         THEN (IF IsZero(x) \/ IsZero(y) THEN NaN
               ELSE PyFloat(Sign(x.n) * Sign(y.n), 0))
    ELSE Norm(x.n * y.n, x.d * y.d)

\* x / y on floats, for y that is not zero
FDiv(x, y) ==
    IF IsNaN(x) \/ IsNaN(y) THEN NaN
    ELSE IF IsInf(x) THEN (IF IsInf(y) THEN NaN ELSE PyFloat(Sign(x.n) * Sign(y.n), 0))
    ELSE IF IsInf(y) THEN PyFloat(0, 1)
    ELSE Norm(x.n * y.d, x.d * y.n)

(* ------------------- outcomes of a call: return or raise --------------- *)

NoExc == [kind |-> "", args |-> <<>>]

Exc(kind, args) == [kind |-> kind, args |-> args]

Return(v) == [ok |-> TRUE, val |-> v, exc |-> NoExc]

Raise(e) == [ok |-> FALSE, val |-> PyNone, exc |-> e]

\* the message of divide's ValueError, word by word
DivideByZeroMessage == <<"Cannot", "divide", "by", "zero">>

\* the message of Python's own ZeroDivisionError on x / 0.0
FloatDivisionMessage == <<"float", "division", "by", "zero">>

\* Python's x / y: raises ZeroDivisionError when y == 0
TrueDiv(x, y) ==
    IF IsZero(y) THEN Raise(Exc("ZeroDivisionError", <<FloatDivisionMessage>>))
    ELSE Return(FDiv(x, y))

\* str(e) of an exception: the single argument, or empty without arguments
Str(e) ==
    IF Len(e.args) = 0 THEN PyStr(<<>>)
    ELSE IF Len(e.args) = 1 THEN PyStr(e.args[1])
    ELSE PyStr(<<"(">> \o e.args[1] \o <<",">> \o e.args[2] \o <<")">>)

\* str.lower() of one word
LowerWord(w) == IF w = "Cannot" THEN "cannot" ELSE w

\* s.lower()
Lower(words) == [i \in 1..Len(words) |-> LowerWord(words[i])]

\* the words of phrase occur consecutively in words (phrase in words)
Contains(words, phrase) ==
    \E i \in 0..(Len(words) - Len(phrase)) :
        \A j \in 1..Len(phrase) : words[i + j] = phrase[j]

(* ------------------------- calculator.py ------------------------------- *)

add(x, y) == Return(FAdd(x, y))

subtract(x, y) == Return(FSub(x, y))

multiply(x, y) == Return(FMul(x, y))

\* divide, without its guard on the divisor
divideUnguarded(x, y) == TrueDiv(x, y)

divide(x, y) ==
    IF IsZero(y) THEN Raise(Exc("ValueError", <<DivideByZeroMessage>>))
    ELSE TrueDiv(x, y)

(* ----------------------------- app.py ---------------------------------- *)

VARIABLES
    pc,         \* per request in flight: where its handler stands
    method,     \* its HTTP method
    a,          \* its form field a, parsed as a float
    b,          \* its form field b, parsed as a float
    operation,  \* its form field operation
    result,     \* the local variable result of calculate, per call frame
    error,      \* the local variable error of calculate, per call frame
    raised,     \* the exception in flight in the handler, if any
    called,     \* the arithmetic functions the handler has invoked
    response,   \* what the handler handed to the templating layer
    history     \* the kinds of the responses completed so far

vars == <<pc, method, a, b, operation, result, error, raised, called, response, history>>

\* the selector values of the dispatch chain
ValidOperations == {"add", "subtract", "multiply", "divide"}

\* values of the operation field: the four selectors and two other strings
Operations == ValidOperations \cup {"modulo", "Add"}

\* values of the fields a and b: float(...) of the submitted text
Operands == {PyFloat(i, 1) : i \in (-MaxOperand)..MaxOperand} \cup {Inf, NegInf, NaN}

\* the smaller request alphabet used when several requests run at once
ConcOperations == {"divide", "modulo"}

ConcOperands == {PyFloat(0, 1), PyFloat(MaxOperand, 1)}

\* Frame, had result and error been module-level variables shared by all calls
FrameShared(r) == 1

\* the call frame that holds the locals of the call serving request r
Frame(r) == r

\* InitialResult, had the handler started from result = 0
InitialResultZero == PyFloat(0, 1)

\* result = None
InitialResult == PyNone

\* error = None
InitialError == PyNone

\* IndexContext, had index() rendered the variables of the first call frame
IndexContextStale == [result |-> result[1], error |-> error[1]]

\* the context index() renders
IndexContext == [result |-> PyNone, error |-> PyNone]

\* the context calculate() renders: its locals
CalculateContext(r) == [result |-> result[Frame(r)], error |-> error[Frame(r)]]

\* TryBody, with the functions of the add and subtract branches exchanged
TryBodySwapped(op, x, y) ==
    IF op = "add" THEN [called |-> <<"subtract">>, out |-> subtract(x, y)]
    ELSE IF op = "subtract" THEN [called |-> <<"add">>, out |-> add(x, y)]
    ELSE IF op = "multiply" THEN [called |-> <<"multiply">>, out |-> multiply(x, y)]
    ELSE IF op = "divide" THEN [called |-> <<"divide">>, out |-> divide(x, y)]
    ELSE [called |-> <<>>, out |-> Return(PyNone)]

\* TryBody, with the multiply branch calling divide
TryBodyMultiplyDivides(op, x, y) ==
    IF op = "add" THEN [called |-> <<"add">>, out |-> add(x, y)]
    ELSE IF op = "subtract" THEN [called |-> <<"subtract">>, out |-> subtract(x, y)]
    ELSE IF op = "multiply" THEN [called |-> <<"divide">>, out |-> divide(x, y)]
    ELSE IF op = "divide" THEN [called |-> <<"divide">>, out |-> divide(x, y)]
    ELSE [called |-> <<>>, out |-> Return(PyNone)]

\* TryBody, with a final else that rejects an unknown operation
TryBodyRejects(op, x, y) ==
    IF op = "add" THEN [called |-> <<"add">>, out |-> add(x, y)]
    ELSE IF op = "subtract" THEN [called |-> <<"subtract">>, out |-> subtract(x, y)]
    ELSE IF op = "multiply" THEN [called |-> <<"multiply">>, out |-> multiply(x, y)]
    ELSE IF op = "divide" THEN [called |-> <<"divide">>, out |-> divide(x, y)]
    ELSE [called |-> <<>>, out |-> Raise(Exc("ValueError", <<<<"Unknown", "operation">>>>))]

\* the body of the try statement: the if/elif chain on operation
TryBody(op, x, y) ==
    IF op = "add" THEN [called |-> <<"add">>, out |-> add(x, y)]
    ELSE IF op = "subtract" THEN [called |-> <<"subtract">>, out |-> subtract(x, y)]
    ELSE IF op = "multiply" THEN [called |-> <<"multiply">>, out |-> multiply(x, y)]
    ELSE IF op = "divide" THEN [called |-> <<"divide">>, out |-> divide(x, y)]
    ELSE [called |-> <<>>, out |-> Return(PyNone)]

\* Catches, had the clause been except ZeroDivisionError
CatchesZeroDivision(e) == e.kind = "ZeroDivisionError"

\* Catches, had the clause been except Exception
CatchesAll(e) == TRUE

\* except ValueError: the exceptions the handler's except clause catches
Catches(e) == e.kind = "ValueError"

NoResponse == [status |-> "", result |-> PyNone, error |-> PyNone]

TemplateResponse(context) == [status |-> "200", result |-> context.result, error |-> context.error]

\* an exception that leaves the handler: the framework answers 500, no page
ServerError == [status |-> "500", result |-> PyNone, error |-> PyNone]

\* the kind of a completed response, as remembered in history
Outcome(m, resp) ==
    IF resp.status = "500" THEN "fault"
    ELSE IF m = "GET" THEN "get"
    ELSE IF resp.error # PyNone THEN "err"
    ELSE IF resp.result # PyNone THEN "ok"
    ELSE "noop"

Init ==
    /\ pc = [r \in Workers |-> "idle"]
    /\ method = [r \in Workers |-> ""]
    /\ a = [r \in Workers |-> PyNone]
    /\ b = [r \in Workers |-> PyNone]
    /\ operation = [r \in Workers |-> ""]
    /\ result = [f \in Workers |-> PyNone]
    /\ error = [f \in Workers |-> PyNone]
    /\ raised = [r \in Workers |-> NoExc]
    /\ called = [r \in Workers |-> <<>>]
    /\ response = [r \in Workers |-> NoResponse]
    /\ history = {}

\* GET / arrives and is routed to index
GetRequest(r) ==
    /\ pc[r] = "idle"
    /\ pc' = [pc EXCEPT ![r] = "index"]
    /\ method' = [method EXCEPT ![r] = "GET"]
    /\ UNCHANGED <<a, b, operation, result, error, raised, called, response, history>>

\* index(): render the form with an empty context
index(r) ==
    /\ pc[r] = "index"
    /\ response' = [response EXCEPT ![r] = TemplateResponse(IndexContext)]
    /\ pc' = [pc EXCEPT ![r] = "done"]
    /\ UNCHANGED <<method, a, b, operation, result, error, raised, called, history>>

\* POST / arrives with the parsed form fields and is routed to calculate
PostRequest(r, x, y, op) ==
    /\ pc[r] = "idle"
    /\ pc' = [pc EXCEPT ![r] = "l46"]
    /\ method' = [method EXCEPT ![r] = "POST"]
    /\ a' = [a EXCEPT ![r] = x]
    /\ b' = [b EXCEPT ![r] = y]
    /\ operation' = [operation EXCEPT ![r] = op]
    /\ UNCHANGED <<result, error, raised, called, response, history>>

\* calculate(): result = None; error = None
CalcInit(r) ==
    /\ pc[r] = "l46"
    /\ result' = [result EXCEPT ![Frame(r)] = InitialResult]
    /\ error' = [error EXCEPT ![Frame(r)] = InitialError]
    /\ pc' = [pc EXCEPT ![r] = "l49"]
    /\ UNCHANGED <<method, a, b, operation, raised, called, response, history>>

\* calculate(): the try body; the selected function returns or raises
CalcTry(r) ==
    /\ pc[r] = "l49"
    /\ LET body == TryBody(operation[r], a[r], b[r])
       IN  /\ called' = [called EXCEPT ![r] = body.called]
           /\ IF body.out.ok
              THEN /\ result' = IF body.called # <<>>
                                THEN [result EXCEPT ![Frame(r)] = body.out.val]
                                ELSE result
                   /\ pc' = [pc EXCEPT ![r] = "l61"]
                   /\ UNCHANGED raised
              ELSE /\ raised' = [raised EXCEPT ![r] = body.out.exc]
                   /\ pc' = [pc EXCEPT ![r] = "l58"]
                   /\ UNCHANGED result
    /\ UNCHANGED <<method, a, b, operation, error, response, history>>

\* calculate(): except ValueError as e: error = str(e); anything else leaves
\* the handler
CalcExcept(r) ==
    /\ pc[r] = "l58"
    /\ IF Catches(raised[r])
       THEN /\ error' = [error EXCEPT ![Frame(r)] = Str(raised[r])]
            /\ pc' = [pc EXCEPT ![r] = "l61"]
            /\ UNCHANGED <<result, response>>
       ELSE /\ response' = [response EXCEPT ![r] = ServerError]
            /\ pc' = [pc EXCEPT ![r] = "fault"]
            /\ result' = [result EXCEPT ![Frame(r)] = PyNone]
            /\ error' = [error EXCEPT ![Frame(r)] = PyNone]
    /\ UNCHANGED <<method, a, b, operation, raised, called, history>>

\* calculate(): return the page rendered from result and error; the frame
\* and its locals are gone after the return
CalcReturn(r) ==
    /\ pc[r] = "l61"
    /\ response' = [response EXCEPT ![r] = TemplateResponse(CalculateContext(r))]
    /\ result' = [result EXCEPT ![Frame(r)] = PyNone]
    /\ error' = [error EXCEPT ![Frame(r)] = PyNone]
    /\ pc' = [pc EXCEPT ![r] = "done"]
    /\ UNCHANGED <<method, a, b, operation, raised, called, history>>

\* the response has been sent; the request and everything about it is dropped
Close(r) ==
    /\ pc[r] \in {"done", "fault"}
    /\ history' = history \cup {Outcome(method[r], response[r])}
    /\ pc' = [pc EXCEPT ![r] = "idle"]
    /\ method' = [method EXCEPT ![r] = ""]
    /\ a' = [a EXCEPT ![r] = PyNone]
    /\ b' = [b EXCEPT ![r] = PyNone]
    /\ operation' = [operation EXCEPT ![r] = ""]
    /\ raised' = [raised EXCEPT ![r] = NoExc]
    /\ called' = [called EXCEPT ![r] = <<>>]
    /\ response' = [response EXCEPT ![r] = NoResponse]
    /\ UNCHANGED <<result, error>>

\* one worker serving one request at a time, start to end
Next ==
    \/ GetRequest(1)
    \/ index(1)
    \/ \E x \in Operands, y \in Operands, op \in Operations : PostRequest(1, x, y, op)
    \/ CalcInit(1)
    \/ CalcTry(1)
    \/ CalcExcept(1)
    \/ CalcReturn(1)
    \/ Close(1)

Spec == Init /\ [][Next]_vars

\* several requests in flight, their handlers' steps interleaved in any order
NextConc ==
    \E r \in Workers :
        \/ GetRequest(r)
        \/ index(r)
        \/ \E x \in ConcOperands, y \in ConcOperands, op \in ConcOperations :
               PostRequest(r, x, y, op)
        \/ CalcInit(r)
        \/ CalcTry(r)
        \/ CalcExcept(r)
        \/ CalcReturn(r)
        \/ Close(r)

SpecConc == Init /\ [][NextConc]_vars

\* failures an arithmetic function other than today's might raise
FutureFailures ==
    { Exc("TypeError", <<<<"unsupported", "operand">>>>),
      Exc("OverflowError", <<<<"Result", "too", "large">>>>),
      Exc("ValueError", <<<<"math", "domain", "error">>>>) }

\* calculate(): the try body, when the selected function raises e
CalcTryRaises(r, e) ==
    /\ pc[r] = "l49"
    /\ operation[r] \in ValidOperations
    /\ called' = [called EXCEPT ![r] = <<operation[r]>>]
    /\ raised' = [raised EXCEPT ![r] = e]
    /\ pc' = [pc EXCEPT ![r] = "l58"]
    /\ UNCHANGED <<method, a, b, operation, result, error, response, history>>

\* the handler over an arithmetic module that may fail in other ways
NextFault ==
    \/ Next
    \/ \E e \in FutureFailures : CalcTryRaises(1, e)

SpecFault == Init /\ [][NextFault]_vars

(* ------------------------------ properties ----------------------------- *)

\* a field of the view model is populated when it is not None
Populated(v) == v # PyNone

\* request r has been answered with a rendered page
Rendered(r) == pc[r] = "done" /\ response[r].status = "200"

\* request r is a POST whose handler has ended, with a page or with a fault
PostEnded(r) == method[r] = "POST" /\ pc[r] \in {"done", "fault"}

\* the response a request gets when it is the only one being handled
Alone(m, x, y, op) ==
    IF m = "GET" THEN TemplateResponse([result |-> PyNone, error |-> PyNone])
    ELSE LET body == TryBody(op, x, y)
         IN  IF body.out.ok
             THEN TemplateResponse([result |-> IF body.called = <<>> THEN PyNone
                                               ELSE body.out.val,
                                    error |-> PyNone])
             ELSE IF body.out.exc.kind = "ValueError"
                  THEN TemplateResponse([result |-> PyNone, error |-> Str(body.out.exc)])
                  ELSE ServerError

\* C1: in the view model of every response, to GET / or to POST / with any
\* operands and any operation string, after any sequence of requests, result
\* and error are never both populated.
C1_NeverBoth ==
    \A r \in Workers :
        Rendered(r) => ~(Populated(response[r].result) /\ Populated(response[r].error))

\* a POST answered with an error after a successful POST and a page load
C1_Witness ==
    /\ Rendered(1) /\ method[1] = "POST"
    /\ Populated(response[1].error)
    /\ {"ok", "get"} \subseteq history

\* C2: for every POST / request, with any value of the operation field,
\* exactly one of result and error is populated in the view model; both are
\* empty only on the page load by GET /.
C2_ExactlyOnePopulated ==
    \A r \in Workers :
        Rendered(r) =>
            IF method[r] = "POST"
            THEN Populated(response[r].result) # Populated(response[r].error)
            ELSE ~Populated(response[r].result) /\ ~Populated(response[r].error)

\* C3: for every POST / with operation = divide and b = 0, whatever a, the
\* handler does not fault: the page is rendered with error set to the message
\* of the failure, which contains "zero", and with result empty.
C3_DivideByZeroReported ==
    \A r \in Workers :
        (PostEnded(r) /\ operation[r] = "divide" /\ IsZero(b[r])) =>
            /\ Rendered(r)
            /\ raised[r].kind = "ValueError"
            /\ response[r].error = Str(raised[r])
            /\ response[r].error.t = "str"
            /\ Contains(Lower(response[r].error.s), <<"zero">>)
            /\ response[r].result = PyNone

\* a division of a number other than zero by zero has been answered
C3_Witness ==
    /\ PostEnded(1) /\ operation[1] = "divide"
    /\ IsZero(b[1]) /\ ~IsZero(a[1])
    /\ Populated(response[1].error)

\* the value of the selected function on finite integral operands, computed
\* on the integers: the quotient q is the fraction with q * y = x
ExactValue(op, x, y, v) ==
    /\ v.t = "float" /\ v.d > 0
    /\ CASE op = "add" -> v.n = (x.n + y.n) * v.d
         [] op = "subtract" -> v.n = (x.n - y.n) * v.d
         [] op = "multiply" -> v.n = (x.n * y.n) * v.d
         [] op = "divide" -> v.n * y.n = x.n * v.d

\* C4: for every POST / whose operation is one of add, subtract, multiply,
\* divide and which does not divide by zero, exactly one arithmetic function
\* is invoked, the one the selector names, and the view model has result
\* equal to that function's value on (a, b), which is a+b, a-b, a*b or a/b,
\* and error empty.
C4_DispatchAndResult ==
    \A r \in Workers :
        (PostEnded(r) /\ operation[r] \in ValidOperations
                      /\ ~(operation[r] = "divide" /\ IsZero(b[r]))) =>
            /\ Rendered(r)
            /\ called[r] = <<operation[r]>>
            /\ response[r].error = PyNone
            /\ response[r].result =
                   (CASE operation[r] = "add" -> FAdd(a[r], b[r])
                      [] operation[r] = "subtract" -> FSub(a[r], b[r])
                      [] operation[r] = "multiply" -> FMul(a[r], b[r])
                      [] operation[r] = "divide" -> FDiv(a[r], b[r]))
            /\ (IsFinite(a[r]) /\ IsFinite(b[r])) =>
                   ExactValue(operation[r], a[r], b[r], response[r].result)

\* a subtraction with a negative, finite difference has been answered
C4_Witness ==
    /\ PostEnded(1) /\ operation[1] = "subtract"
    /\ IsFinite(a[1]) /\ IsFinite(b[1])
    /\ Populated(response[1].result) /\ response[1].result.n < 0

\* C5: for every a, divide(a, 0) fails with a ValueError whose message
\* matches "Cannot divide by zero" and returns no value; for every b other
\* than zero, divide(a, b) does not fail.
C5_DividePartial ==
    \A r \in Workers :
        (method[r] = "POST" /\ operation[r] = "divide" /\ called[r] = <<"divide">>) =>
            IF IsZero(b[r])
            THEN /\ raised[r].kind = "ValueError"
                 /\ Len(raised[r].args) = 1
                 /\ Contains(raised[r].args[1], <<"Cannot", "divide", "by", "zero">>)
                 /\ Contains(Lower(raised[r].args[1]), <<"divide", "by", "zero">>)
                 /\ pc[r] = "l58" => result[Frame(r)] = PyNone
                 /\ Rendered(r) => response[r].result = PyNone
            ELSE /\ raised[r] = NoExc
                 /\ pc[r] = "l61" => result[Frame(r)].t = "float"

\* divide has just raised on a zero divisor, the exception not yet handled
C5_Witness ==
    /\ pc[1] = "l58" /\ called[1] = <<"divide">>
    /\ IsZero(b[1]) /\ a[1] = PyFloat(1, 1)

\* C6: GET / always yields a view model with result and error both empty,
\* whatever POST / requests, successful or failing, came before it or are
\* being handled with it.
C6_GetIsEmpty ==
    \A r \in Workers :
        (method[r] = "GET" /\ pc[r] = "done") =>
            /\ response[r].status = "200"
            /\ response[r].result = PyNone
            /\ response[r].error = PyNone

\* a page load answered after a successful and a failing POST, while another
\* POST holds a computed result
C6_Witness ==
    /\ method[2] = "GET" /\ pc[2] = "done"
    /\ {"ok", "err"} \subseteq history
    /\ pc[1] = "l61" /\ Populated(result[Frame(1)])

\* C7: when several requests are handled at once, under every interleaving
\* of their steps each request gets the view model it would get handled
\* alone, a function of its own method, a, b and operation only.
C7_Isolation ==
    \A r \in Workers :
        /\ pc[r] \in {"done", "fault"} =>
               response[r] = Alone(method[r], a[r], b[r], operation[r])
        /\ pc[r] = "l61" =>
               TemplateResponse(CalculateContext(r))
                   = Alone(method[r], a[r], b[r], operation[r])

\* a successful POST answered while a failing POST is between its except
\* clause and its return
C7_Witness ==
    /\ Rendered(1) /\ method[1] = "POST" /\ Populated(response[1].result)
    /\ pc[2] = "l61" /\ Populated(error[Frame(2)])

C9_MultiplyByZeroAnyA ==
    \A r \in Workers :
        (PostEnded(r) /\ operation[r] = "multiply" /\ IsZero(b[r])) =>
            /\ Rendered(r)
            /\ response[r].result = PyFloat(0, 1)
            /\ response[r].error = PyNone

\* C9 as amended: for every POST / with operation = multiply, b = 0 and a
\* finite, the view model has result populated with the value 0, which is
\* not an empty result, and error empty.
C9_MultiplyByZeroFiniteA ==
    \A r \in Workers :
        (PostEnded(r) /\ operation[r] = "multiply" /\ IsZero(b[r]) /\ IsFinite(a[r])) =>
            /\ Rendered(r)
            /\ response[r].result = PyFloat(0, 1)
            /\ Populated(response[r].result)
            /\ response[r].error = PyNone

\* a multiplication of a finite number other than zero by zero has been answered
C9_Witness ==
    /\ PostEnded(1) /\ operation[1] = "multiply"
    /\ IsZero(b[1]) /\ IsFinite(a[1]) /\ ~IsZero(a[1])
    /\ Rendered(1)

\* C10: for every POST / whose operation is a string other than add,
\* subtract, multiply, divide, no arithmetic function is invoked and the
\* handler returns normally with result and error both empty.
C10_UnknownOperationNoOp ==
    \A r \in Workers :
        (PostEnded(r) /\ operation[r] \notin ValidOperations) =>
            /\ Rendered(r)
            /\ called[r] = <<>>
            /\ raised[r] = NoExc
            /\ response[r].result = PyNone
            /\ response[r].error = PyNone

\* a POST with the operation "Add" has been answered
C10_Witness ==
    /\ PostEnded(1) /\ operation[1] = "Add"
    /\ a[1] = PyFloat(1, 1) /\ IsZero(b[1])

====
